---- MODULE Spec2Model ----
(***************************************************************************)
(* Model of rover subgraph publish (src/command/subgraph/publish.rs):      *)
(* Publish::run and the routing-URL confirmation it performs before the    *)
(* remote publish (handle_maybe_invalid_routing_url, prompt_for_publish,   *)
(* non_tty_hard_error, non_tty_warn_about_local_url).                      *)
(*                                                                         *)
(* Text is modelled as a sequence of lexemes (strings): a URL such as      *)
(* http://localhost:8000 is <<"http", ":", "//", "localhost", ":", "8000">>*)
(* and a formatted message is the concatenation of its literal phrases and *)
(* its arguments.  Bytes of the input stream are the numbers 0..255.       *)
(***************************************************************************)
EXTENDS Integers, Sequences, FiniteSets, TLC

VARIABLES
    routing_url,                \* self.routing_url : Option<String>
    allow_invalid_routing_url,  \* self.allow_invalid_routing_url : bool
    schema_from_stdin,          \* self.schema reads the SDL from stdin ("-")
    is_atty,                    \* stderr().is_terminal() && stdin().is_terminal()
    stdin,                      \* bytes not yet consumed from the input stream
    stderr,                     \* what has been written to the output stream
    pc,                         \* position of run
    site,                       \* which call of the validation is in progress
    fetch_response,             \* Option<String> returned by routing_url::run
    response,                   \* the one-byte buffer of prompt_for_publish
    result,                     \* what run returned (or the panic that ended it)
    published_url,              \* SubgraphPublishInput.url handed to publish::run
    trace                       \* history: the calls made so far, in order

vars == <<routing_url, allow_invalid_routing_url, schema_from_stdin, is_atty,
          stdin, stderr, pc, site, fetch_response, response, result,
          published_url, trace>>

---------------------------------------------------------------------------
(* Bounds of the model *)

\* longest input stream tried
MaxInputLen == 2

---------------------------------------------------------------------------
(* Option<String> *)

None == [some |-> FALSE, val |-> <<>>]

Some(t) == [some |-> TRUE, val |-> t]

---------------------------------------------------------------------------
(* Candidate texts *)

\* words a candidate may carry before the first ":"
SchemeWords == {"http", "https", "HTTP", "ftp", "grpc"}

\* words a candidate may carry as its authority
HostWords == {"localhost", "127.0.0.1", "LOCALHOST", "example.com"}

\* words tried without any "://"
BareWords == {"invalid-url", "localhost", "127.0.0.1"}

Port == <<":", "8000">>

\* "", "invalid-url", "localhost:8000", "http://", "ftp://example.com",
\* "HTTP://LOCALHOST:8000", ...
Texts ==
    {<<>>}
    \cup {<<w>> : w \in BareWords}
    \cup {<<w>> \o Port : w \in {"localhost", "127.0.0.1"}}
    \cup {<<s, ":", "//">> \o h \o p :
            s \in SchemeWords,
            h \in {<<>>} \cup {<<x>> : x \in HostWords},
            p \in {<<>>, Port}}

\* bytes tried on the input stream: y, Y, n, and 0xC3, the lead byte of a
\* two-byte UTF-8 sequence (what a terminal sends first for a letter such as
\* e-acute), which is not valid UTF-8 on its own
SampleBytes == {121, 89, 110, 195}

RECURSIVE SeqsUpTo(_, _)
SeqsUpTo(S, n) ==
    IF n = 0 THEN {<<>>}
    ELSE LET shorter == SeqsUpTo(S, n - 1)
         IN  shorter \cup {Append(s, x) : s \in shorter, x \in S}

InputStreams == SeqsUpTo(SampleBytes, MaxInputLen)

---------------------------------------------------------------------------
(* Url::parse, as far as the candidates above exercise it *)

\* ASCII lowercasing of a word (the parser lowercases schemes and the hosts
\* of special schemes)
to_ascii_lowercase(w) ==
    CASE w = "HTTP" -> "http"
      [] w = "LOCALHOST" -> "localhost"
      [] OTHER -> w

\* a scheme starts with an ASCII letter and runs up to the first ":"
starts_with_ascii_alpha(w) == w \notin {"127.0.0.1", "8000", ":", "//", ""}

\* the schemes with an authority the parser insists on
SpecialSchemes == {"http", "https", "ws", "wss", "ftp"}

ParseError(e) == [ok |-> FALSE, scheme |-> "", host |-> None, error |-> e]

Parsed(s, h) == [ok |-> TRUE, scheme |-> s, host |-> h, error |-> ""]

is_port(rest) ==
    \/ rest = <<>>
    \/ Len(rest) = 2 /\ rest[1] = ":" /\ rest[2] \in {"8000"}

Url_parse(t) ==
    IF Len(t) < 2 \/ ~starts_with_ascii_alpha(t[1]) \/ t[2] # ":"
    THEN ParseError("RelativeUrlWithoutBase")
    ELSE
      LET scheme == to_ascii_lowercase(t[1])
          rest == SubSeq(t, 3, Len(t))
          slashes == rest # <<>> /\ rest[1] = "//"
          auth == IF slashes THEN Tail(rest) ELSE rest
      IN  IF scheme \in SpecialSchemes
          THEN IF auth = <<>> \/ auth[1] = ":"
               THEN ParseError("EmptyHost")
               ELSE IF ~is_port(Tail(auth))
               THEN ParseError("InvalidPort")
               ELSE Parsed(scheme, Some(<<to_ascii_lowercase(auth[1])>>))
          ELSE IF ~slashes
               THEN Parsed(scheme, None)
               ELSE IF auth = <<>>
               THEN Parsed(scheme, None)
               ELSE IF auth[1] = ":"
               THEN ParseError("EmptyHost")
               ELSE IF ~is_port(Tail(auth))
               THEN ParseError("InvalidPort")
               ELSE Parsed(scheme, Some(<<auth[1]>>))

---------------------------------------------------------------------------
(* Messages *)

\* The backquote of the source's format strings is written ^ below.

\* Style::paint wraps the text in the style's escape sequences
Paint(style, text) == <<"<" \o style \o ">">> \o text \o <<"</>">>

NotValidPhrase == " is not a valid routing URL."

ValidProtocolsPhrase == " Valid protocols are ^http^ and ^https^."

StillPublishPhrase == " Would you still like to publish?"

UnreachablePhrase ==
    " Continuing the publish will make this subgraph unreachable by your supergraph."

CancelledMessage ==
    <<"You cancelled a subgraph publish due to an invalid routing url.">>

\* line 134
unsupported_scheme_reason(url, scheme) ==
    <<"^">> \o Paint("Link", url) \o <<"^", NotValidPhrase, " The ^", scheme,
      "^ protocol is not supported by the router.", ValidProtocolsPhrase>>

\* line 147
local_host_reason(host) ==
    <<"The host ^">> \o host \o
    <<"^ is not routable via the public internet.",
      " Continuing the publish will make this subgraph reachable in local environments only.">>

\* lines 162-165
unparsable_reason(url) ==
    <<"^">> \o Paint("Link", url) \o <<"^", NotValidPhrase>>

Contains(message, lexeme) == \E i \in DOMAIN message : message[i] = lexeme

---------------------------------------------------------------------------
(* Results *)

Ok == [kind |-> "Ok", message |-> <<>>, suggestion |-> "None"]

Err(message) == [kind |-> "Err", message |-> message, suggestion |-> "None"]

\* RoverError::with_suggestion
with_suggestion(e, s) == [e EXCEPT !.suggestion = s]

\* an io::Error carried out of the call by ^?^
IoErr(kind) == Err(<<"io error: ", kind>>)

\* a panic unwinds run: no RoverResult is returned
Panic(message) == [kind |-> "Panic", message |-> message, suggestion |-> "None"]

NoResult == [kind |-> "None", message |-> <<>>, suggestion |-> "None"]

\* non_tty_hard_error: always Err, carrying the reason and the suggestion
non_tty_hard_error(reason) ==
    with_suggestion(Err(reason), "AllowInvalidRoutingUrlOrSpecifyValidUrl")

\* the line writeln! formats in non_tty_warn_about_local_url
non_tty_warn_line(reason) ==
    Paint("WarningPrefix", <<"WARN:">>) \o <<" ">> \o reason \o <<"\n">>

\* the text write! formats in prompt_for_publish
prompt_text(message) == message \o <<" [y/N] ">>

---------------------------------------------------------------------------
(* handle_maybe_invalid_routing_url: what it decides for a candidate.       *)
(* step is the helper it calls (or "proceed" when it calls none), message   *)
(* the argument it passes, classified whether Url::parse was called.        *)

Decision(c, s, m) == [classified |-> c, step |-> s, message |-> m]

\* line 135: ["http", "https"].contains(&parsed_url.scheme())
scheme_supported_or_ftp(scheme) == scheme \in {"http", "https", "ftp"}

scheme_supported(scheme) == scheme \in {"http", "https"}

\* line 146: ["localhost", "127.0.0.1"].contains(&host)
is_not_local_host(host) == host \notin {<<"localhost">>, <<"127.0.0.1">>}

is_local_host(host) == host \in {<<"localhost">>, <<"127.0.0.1">>}

on_unsupported_scheme_always_prompts(url, scheme, atty) ==
    Decision(TRUE, "prompt",
        unsupported_scheme_reason(url, scheme)
            \o <<UnreachablePhrase, StillPublishPhrase>>)

\* lines 134-144: the scheme is not one the router supports
on_unsupported_scheme(url, scheme, atty) ==
    LET reason == unsupported_scheme_reason(url, scheme)
    IN  IF atty
        THEN Decision(TRUE, "prompt",
                 reason \o <<UnreachablePhrase, StillPublishPhrase>>)
        ELSE Decision(TRUE, "hard_error", reason)

on_local_host_hard_fails(host, atty) ==
    LET reason == local_host_reason(host)
    IN  IF atty
        THEN Decision(TRUE, "prompt", reason \o <<StillPublishPhrase>>)
        ELSE Decision(TRUE, "hard_error", reason)

\* lines 147-156: the host is this machine
on_local_host(host, atty) ==
    LET reason == local_host_reason(host)
    IN  IF atty
        THEN Decision(TRUE, "prompt", reason \o <<StillPublishPhrase>>)
        ELSE Decision(TRUE, "warn", reason)

on_parse_error_warns(url, atty) ==
    LET reason == unparsable_reason(url)
    IN  IF atty
        THEN Decision(TRUE, "prompt",
                 reason \o <<UnreachablePhrase, StillPublishPhrase>>)
        ELSE Decision(TRUE, "warn", reason)

\* lines 160-175: Url::parse returned Err
on_parse_error(url, atty) ==
    LET reason == unparsable_reason(url)
    IN  IF atty
        THEN Decision(TRUE, "prompt",
                 reason \o <<UnreachablePhrase, StillPublishPhrase>>)
        ELSE Decision(TRUE, "hard_error", reason)

handle_host_check_first(maybe_invalid_routing_url, atty) ==
    IF ~maybe_invalid_routing_url.some
    THEN Decision(FALSE, "proceed", <<>>)
    ELSE
      LET url == maybe_invalid_routing_url.val
          parsed_url == Url_parse(url)
      IN  IF parsed_url.ok
          THEN IF parsed_url.host.some /\ is_local_host(parsed_url.host.val)
               THEN on_local_host(parsed_url.host.val, atty)
               ELSE IF ~scheme_supported(parsed_url.scheme)
               THEN on_unsupported_scheme(url, parsed_url.scheme, atty)
               ELSE Decision(TRUE, "proceed", <<>>)
          ELSE on_parse_error(url, atty)

\* lines 130-178
handle_maybe_invalid_routing_url(maybe_invalid_routing_url, atty) ==
    IF ~maybe_invalid_routing_url.some
    THEN Decision(FALSE, "proceed", <<>>)
    ELSE
      LET url == maybe_invalid_routing_url.val
          parsed_url == Url_parse(url)
      IN  IF parsed_url.ok
          THEN IF ~scheme_supported(parsed_url.scheme)
               THEN on_unsupported_scheme(url, parsed_url.scheme, atty)
               ELSE IF parsed_url.host.some /\ is_local_host(parsed_url.host.val)
               THEN on_local_host(parsed_url.host.val, atty)
               ELSE Decision(TRUE, "proceed", <<>>)
          ELSE on_parse_error(url, atty)

---------------------------------------------------------------------------
(* prompt_for_publish, after its write: read_exact into a one-byte buffer   *)
(* and the decision on it.                                                  *)

\* str::from_utf8 on a one-byte slice: only ASCII is valid on its own
from_utf8_ok(b) == b < 128

\* str::to_lowercase on a one-character ASCII string
to_lowercase(b) == IF b >= 65 /\ b <= 90 THEN b + 32 ELSE b

\* the byte y
LowerY == 121

\* lines 189-193, for the byte read
prompt_decision(b) ==
    IF ~from_utf8_ok(b)
    THEN Panic(<<"called ^Result::unwrap()^ on an ^Err^ value: Utf8Error">>)
    ELSE IF to_lowercase(b) = LowerY
    THEN Ok
    ELSE Err(CancelledMessage)

prompt_read_eof_declines(input) ==
    IF input = <<>>
    THEN Err(CancelledMessage)
    ELSE prompt_decision(Head(input))

\* lines 187-193: the outcome for the input stream as it stands
prompt_read(input) ==
    IF input = <<>>
    THEN IoErr("UnexpectedEof")
    ELSE prompt_decision(Head(input))

read_line_rest(input) == <<>>

\* line 188: read_exact on a one-byte buffer takes one byte off the stream, or
\* none when the stream is at its end
read_exact_rest(input) == IF input = <<>> THEN input ELSE Tail(input)

write_outcome_ignored(write_ok) == Ok

\* lines 186 and 205: write!(...)? and writeln!(...)? on the output stream
write_outcome(write_ok) == IF write_ok THEN Ok ELSE IoErr("WriteFailed")

---------------------------------------------------------------------------
(* History *)

Ev(op, arg) == [op |-> op, arg |-> arg]

\* the events a call of the validation may add between its start and its return
InteractionOps == {"prompt", "warn", "hard_error", "write", "write_failed", "read"}

---------------------------------------------------------------------------
(* The state after construction: the command line is parsed, nothing has  *)
(* run.  The input stream holds what the terminal or the pipe will supply. *)

Init ==
    /\ routing_url \in {None} \cup {Some(t) : t \in Texts}
    /\ allow_invalid_routing_url \in BOOLEAN
    /\ schema_from_stdin \in BOOLEAN
    /\ is_atty \in BOOLEAN
    /\ stdin \in InputStreams
    /\ stderr = <<>>
    /\ pc = "start"
    /\ site = "none"
    /\ fetch_response = None
    /\ response = <<>>
    /\ result = NoResult
    /\ published_url = None
    /\ trace = <<>>

---------------------------------------------------------------------------
(* run *)

routing_url_is_some == routing_url.some

fetch_always == TRUE

routing_url_is_none_or_empty == ~routing_url.some \/ routing_url.val = <<>>

\* line 70: self.routing_url.is_none()
routing_url_is_none == ~routing_url.some

\* where run goes on after a validation call returned Ok(())
after_validation(s) ==
    IF s = "supplied" THEN "get_client" ELSE "announce"

propagate_ignoring_err(r, next_pc) ==
    CASE r.kind = "Panic" -> /\ pc' = "panicked"
                             /\ result' = r
      [] OTHER -> /\ pc' = next_pc
                  /\ result' = result

\* the ? operator on a result: Ok goes on at next_pc, Err returns it from run,
\* a panic unwinds
propagate(r, next_pc) ==
    CASE r.kind = "Ok" -> /\ pc' = next_pc
                          /\ result' = result
      [] r.kind = "Err" -> /\ pc' = "failed"
                           /\ result' = r
      [] OTHER -> /\ pc' = "panicked"
                  /\ result' = r

ReturnEv(r) ==
    CASE r.kind = "Ok" -> Ev("return_ok", <<>>)
      [] r.kind = "Err" -> Ev("return_err", r.message)
      [] OTHER -> Ev("panic", r.message)

\* One call of handle_maybe_invalid_routing_url(maybe, stderr, stdin, is_atty)
\* from run, up to its return or to the read of prompt_for_publish.
\* write_ok: whether the write to the output stream succeeds.
Validate(maybe, s, write_ok) ==
    LET d == handle_maybe_invalid_routing_url(maybe, is_atty)
        t0 == Append(trace, IF maybe.some THEN Ev("validate", maybe.val)
                                          ELSE Ev("validate_none", <<>>))
        t1 == IF d.classified THEN Append(t0, Ev("classify", maybe.val)) ELSE t0
    IN  CASE d.step = "proceed" ->
               /\ trace' = Append(t1, ReturnEv(Ok))
               /\ propagate(Ok, after_validation(s))
               /\ site' = "none"
               /\ UNCHANGED <<stderr, response>>
          [] d.step = "hard_error" ->
               LET r == non_tty_hard_error(d.message)
               IN  /\ trace' = t1 \o <<Ev("hard_error", d.message), ReturnEv(r)>>
                   /\ propagate(r, after_validation(s))
                   /\ site' = "none"
                   /\ UNCHANGED <<stderr, response>>
          [] d.step = "warn" ->
               \* non_tty_warn_about_local_url: writeln!(...)?; Ok(())
               LET line == non_tty_warn_line(d.message)
                   r == write_outcome(write_ok)
               IN  /\ stderr' = IF write_ok THEN Append(stderr, line) ELSE stderr
                   /\ trace' = t1 \o <<Ev("warn", d.message),
                                       IF write_ok THEN Ev("write", line)
                                                   ELSE Ev("write_failed", <<>>),
                                       ReturnEv(r)>>
                   /\ propagate(r, after_validation(s))
                   /\ site' = "none"
                   /\ UNCHANGED response
          [] OTHER ->
               \* prompt_for_publish: write!(...)?; let mut response = [0];
               LET text == prompt_text(d.message)
                   r == write_outcome(write_ok)
               IN  IF write_ok
                   THEN /\ stderr' = Append(stderr, text)
                        /\ trace' = t1 \o <<Ev("prompt", d.message), Ev("write", text)>>
                        /\ response' = <<0>>
                        /\ pc' = "prompt_read"
                        /\ site' = s
                        /\ UNCHANGED result
                   ELSE /\ trace' = t1 \o <<Ev("prompt", d.message),
                                            Ev("write_failed", <<>>), ReturnEv(r)>>
                        /\ propagate(r, after_validation(s))
                        /\ site' = "none"
                        /\ UNCHANGED <<stderr, response>>

\* lines 59-66
ValidateSupplied ==
    /\ pc = "start"
    /\ IF allow_invalid_routing_url
       THEN /\ pc' = "get_client"
            /\ UNCHANGED <<stderr, site, response, result, trace>>
       ELSE \E write_ok \in BOOLEAN : Validate(routing_url, "supplied", write_ok)
    /\ UNCHANGED <<routing_url, allow_invalid_routing_url, schema_from_stdin,
                   is_atty, stdin, fetch_response, published_url>>

\* lines 188-193: reader.read_exact(&mut response)? and the decision
PromptRead ==
    /\ pc = "prompt_read"
    /\ LET r == prompt_read(stdin)
           eof == stdin = <<>>
       IN  /\ stdin' = read_exact_rest(stdin)
           /\ response' = IF eof THEN response ELSE <<Head(stdin)>>
           /\ trace' = trace \o <<Ev("read", IF eof THEN <<"eof">> ELSE <<"byte">>),
                                  ReturnEv(r)>>
           /\ propagate(r, after_validation(site))
    /\ site' = "none"
    /\ UNCHANGED <<routing_url, allow_invalid_routing_url, schema_from_stdin,
                   is_atty, stderr, fetch_response, published_url>>

\* line 68, and the test of line 70
GetAuthenticatedClient ==
    /\ pc = "get_client"
    /\ \E ok \in BOOLEAN :
         propagate(IF ok THEN Ok ELSE Err(<<"no credentials">>),
                   IF routing_url_is_none THEN "fetch" ELSE "announce")
    /\ UNCHANGED <<routing_url, allow_invalid_routing_url, schema_from_stdin,
                   is_atty, stdin, stderr, site, fetch_response, response,
                   published_url, trace>>

\* lines 71-77: routing_url::run(...)?
FetchRoutingUrl ==
    /\ pc = "fetch"
    /\ \/ \E t \in Texts :
            /\ fetch_response' = Some(t)
            /\ propagate(Ok, "validate_fetched")
       \/ /\ propagate(Err(<<"could not fetch the routing url">>), "validate_fetched")
          /\ UNCHANGED fetch_response
    /\ trace' = Append(trace, Ev("fetch", <<>>))
    /\ UNCHANGED <<routing_url, allow_invalid_routing_url, schema_from_stdin,
                   is_atty, stdin, stderr, site, response, published_url>>

\* lines 79-84
ValidateFetched ==
    /\ pc = "validate_fetched"
    /\ \E write_ok \in BOOLEAN : Validate(fetch_response, "fetched", write_ok)
    /\ UNCHANGED <<routing_url, allow_invalid_routing_url, schema_from_stdin,
                   is_atty, stdin, fetch_response, published_url>>

AnnounceLine == <<"Publishing SDL to ...">>

\* lines 87-92: eprintln! panics when the write to stderr fails
Announce ==
    /\ pc = "announce"
    /\ \E write_ok \in BOOLEAN :
         IF write_ok
         THEN /\ stderr' = Append(stderr, AnnounceLine)
              /\ trace' = Append(trace, Ev("announce", <<>>))
              /\ propagate(Ok, "read_schema")
         ELSE /\ propagate(Panic(<<"failed printing to stderr">>), "read_schema")
              /\ trace' = Append(trace, Ev("panic", <<"failed printing to stderr">>))
              /\ UNCHANGED stderr
    /\ UNCHANGED <<routing_url, allow_invalid_routing_url, schema_from_stdin,
                   is_atty, stdin, site, fetch_response, response, published_url>>

\* lines 94-96: the SDL is read from a file, or from stdin to its end
ReadSchema ==
    /\ pc = "read_schema"
    /\ stdin' = IF schema_from_stdin THEN <<>> ELSE stdin
    /\ \E ok \in BOOLEAN :
         propagate(IF ok THEN Ok ELSE Err(<<"could not read the SDL">>), "publish")
    /\ trace' = Append(trace, Ev("read_schema", <<>>))
    /\ UNCHANGED <<routing_url, allow_invalid_routing_url, schema_from_stdin,
                   is_atty, stderr, site, fetch_response, response, published_url>>

publish_input_url_or_fetched ==
    IF routing_url.some THEN routing_url ELSE fetch_response

\* line 104: url: self.routing_url.clone()
publish_input_url == routing_url

\* lines 100-116: publish::run(SubgraphPublishInput { .. })?
PublishRun ==
    /\ pc = "publish"
    /\ published_url' = publish_input_url
    /\ trace' = Append(trace, Ev("publish", routing_url.val))
    /\ \E ok \in BOOLEAN :
         IF ok
         THEN /\ pc' = "done"
              /\ result' = Ok
         ELSE propagate(Err(<<"publish failed">>), "done")
    /\ UNCHANGED <<routing_url, allow_invalid_routing_url, schema_from_stdin,
                   is_atty, stdin, stderr, site, fetch_response, response>>

Next ==
    \/ ValidateSupplied
    \/ PromptRead
    \/ GetAuthenticatedClient
    \/ FetchRoutingUrl
    \/ ValidateFetched
    \/ Announce
    \/ ReadSchema
    \/ PublishRun

Spec == Init /\ [][Next]_vars

---------------------------------------------------------------------------
(* Properties *)

\* positions of the history holding one of the operations S
At(S) == {i \in DOMAIN trace : trace[i].op \in S}

Written(text) == \E k \in DOMAIN stderr : stderr[k] = text

HardFailSuggestion == "AllowInvalidRoutingUrlOrSpecifyValidUrl"

LocalHosts == {<<"localhost">>, <<"127.0.0.1">>}

\* the classifications of section 4.1, from the parse result
IsUnparsable(url) == ~Url_parse(url).ok

IsUnsupportedScheme(url) ==
    Url_parse(url).ok /\ Url_parse(url).scheme \notin {"http", "https"}

IsLocalHost(url) ==
    /\ Url_parse(url).ok
    /\ Url_parse(url).scheme \in {"http", "https"}
    /\ Url_parse(url).host \in {Some(h) : h \in LocalHosts}

IsValidPublic(url) ==
    /\ Url_parse(url).ok
    /\ Url_parse(url).scheme \in {"http", "https"}
    /\ Url_parse(url).host \notin {Some(h) : h \in LocalHosts}

\* C1 (as claimed): with allow_invalid_routing_url set, run never calls the
\* validation: no URL is classified, nothing is prompted, warned, written or
\* read for it, and no run ends in a failure of the validation.
C1_OverrideSkipsProtocol ==
    allow_invalid_routing_url =>
        /\ At({"validate", "validate_none", "classify"} \cup InteractionOps) = {}
        /\ pc # "prompt_read"

\* C2 (as claimed): after a prompt, a byte y or Y read from the input makes the
\* call return Ok, and every other byte makes it return the cancellation error,
\* which run returns without publishing.
C2_OtherByteCancels ==
    \A i \in At({"read"}) :
        trace[i].arg = <<"byte">> =>
            IF response[1] \in {121, 89}
            THEN trace[i + 1] = Ev("return_ok", <<>>)
            ELSE /\ trace[i + 1] = Ev("return_err", CancelledMessage)
                 /\ result = Err(CancelledMessage)
                 /\ At({"publish"}) = {}

C6_LocalHost ==
    \A i \in At({"classify"}) :
        IsLocalHost(trace[i].arg) =>
            LET host == Url_parse(trace[i].arg).host.val[1]
            IN  /\ i + 2 \in DOMAIN trace
                /\ trace[i + 1].op = IF is_atty THEN "prompt" ELSE "warn"
                /\ Contains(trace[i + 1].arg, host)
                /\ trace[i + 2].op \in {"write", "write_failed"}
                /\ ~is_atty =>
                       /\ At({"hard_error", "prompt", "read"}) = {}
                       /\ result.suggestion # HardFailSuggestion
                       /\ i + 3 \in DOMAIN trace
                       /\ trace[i + 2].op = "write" =>
                              /\ trace[i + 2].arg = non_tty_warn_line(trace[i + 1].arg)
                              /\ Contains(trace[i + 2].arg, host)
                              /\ Written(trace[i + 2].arg)
                              /\ trace[i + 3] = Ev("return_ok", <<>>)
                       /\ trace[i + 2].op = "write_failed" =>
                              /\ trace[i + 3].op = "return_err"
                              /\ result = IoErr("WriteFailed")

C6_Witness ==
    /\ ~is_atty
    /\ \E i \in At({"classify"}) :
           /\ IsLocalHost(trace[i].arg)
           /\ trace[i + 2].op = "write"
           /\ trace[i + 3].op = "return_ok"
    /\ pc = "done"

\* the candidate of the validation call that a step of run is about to make
CallCandidate ==
    IF pc = "start" THEN routing_url ELSE fetch_response

CallsValidation ==
    \/ pc = "start" /\ ~allow_invalid_routing_url
    \/ pc = "validate_fetched"

\* C7: a validation call on a candidate with scheme http or https and a host
\* other than localhost and 127.0.0.1 returns Ok, on and off a terminal, and
\* leaves the output stream and the input stream as they were.
C7_ValidPublicSilent ==
    [][(CallsValidation /\ CallCandidate.some /\ IsValidPublic(CallCandidate.val)) =>
          /\ stderr' = stderr
          /\ stdin' = stdin
          /\ result' = result
          /\ pc' = after_validation(IF pc = "start" THEN "supplied" ELSE "fetched")
          /\ trace' = trace \o <<Ev("validate", CallCandidate.val),
                                 Ev("classify", CallCandidate.val),
                                 Ev("return_ok", <<>>)>>]_vars

C7_Witness ==
    /\ \E i \in At({"classify"}) :
           /\ IsValidPublic(trace[i].arg)
           /\ trace[i + 1] = Ev("return_ok", <<>>)
    /\ is_atty
    /\ stderr = <<>>

\* the validation calls of the history that have returned, and how
ReturnOf(i) ==
    LET later == {k \in At({"return_ok", "return_err", "panic"}) : k > i}
    IN  IF later = {} THEN "none"
        ELSE trace[CHOOSE k \in later : \A m \in later : k <= m].op

\* C8: publish::run is called only after every validation call made has
\* returned Ok: nothing that fails a validation call (hard error, cancellation,
\* I/O error) is ever followed by the publish, and without the override flag
\* the publish is preceded by a classification whose call returned Ok.
C8_PublishOnlyAfterValidation ==
    \A j \in At({"publish"}) :
        /\ \A i \in At({"return_err", "panic", "hard_error", "write_failed"}) : i > j
        /\ \A i \in At({"validate", "validate_none"}) :
               i < j /\ ReturnOf(i) = "return_ok"
        /\ ~allow_invalid_routing_url =>
               \E i \in At({"classify"}) : i < j /\ ReturnOf(i) = "return_ok"

C8_Witness ==
    /\ At({"publish"}) # {}
    /\ ~allow_invalid_routing_url
    /\ At({"read"}) # {}

\* C9: one run classifies at most one URL and issues at most one prompt or
\* warning, whether the candidate came from the command line or was fetched.
C9_AtMostOneClassification ==
    /\ Cardinality(At({"classify"})) <= 1
    /\ Cardinality(At({"prompt", "warn"})) <= 1
    /\ Cardinality(At({"write", "write_failed"})) <= 1

C9_Witness ==
    /\ At({"fetch"}) # {}
    /\ At({"classify"}) # {}
    /\ At({"warn"}) # {}
    /\ pc = "done"

\* C10: the routing URL is fetched only when run was given no candidate; the
\* validation call on an absent candidate returns Ok at once, with no
\* classification, write or read; and a publish without a candidate comes
\* after the fetch and after a validation call on the fetched URL.
C10_FetchOnlyWhenAbsent ==
    /\ At({"fetch"}) # {} => ~routing_url.some
    /\ \A i \in At({"validate_none"}) :
           /\ i + 1 \in DOMAIN trace
           /\ trace[i + 1] = Ev("return_ok", <<>>)
    /\ (pc = "get_client" /\ ~routing_url.some) =>
           /\ stderr = <<>>
           /\ At({"classify", "read"} \cup InteractionOps) = {}
    /\ \A j \in At({"publish"}) :
           ~routing_url.some =>
               \E f \in At({"fetch"}) : \E v \in At({"validate"}) :
                   /\ f < v
                   /\ v < j
                   /\ fetch_response.some
                   /\ trace[v].arg = fetch_response.val
                   /\ ReturnOf(v) = "return_ok"

C10_Witness ==
    /\ ~routing_url.some
    /\ ~allow_invalid_routing_url
    /\ At({"validate_none"}) # {}
    /\ At({"publish"}) # {}
    /\ At({"classify"}) # {}

\* C11: a prompt is one write, then one read, then one decision: the message
\* followed by " [y/N] " is written once, before the read; the read takes one
\* byte off the input stream (none at its end) and leaves the bytes after it;
\* whatever the byte, the call then returns and never prompts again.
C11_OneWriteOneRead ==
    /\ [](/\ Cardinality(At({"prompt"})) <= 1
          /\ Cardinality(At({"read"})) <= 1
          /\ \A i \in At({"prompt"}) :
                 /\ i + 1 \in DOMAIN trace
                 /\ trace[i + 1].op \in {"write", "write_failed"}
                 /\ trace[i + 1].op = "write" =>
                        /\ trace[i + 1].arg = trace[i].arg \o <<" [y/N] ">>
                        /\ Cardinality({k \in DOMAIN stderr :
                                           stderr[k] = trace[i + 1].arg}) = 1
                        /\ Cardinality(At({"write"})) = 1
          /\ \A j \in At({"read"}) :
                 /\ j >= 2
                 /\ trace[j - 1].op = "write"
                 /\ trace[j - 2].op = "prompt"
                 /\ j + 1 \in DOMAIN trace
                 /\ trace[j + 1].op \in {"return_ok", "return_err", "panic"})
    /\ [][pc = "prompt_read" =>
            /\ stdin' = (IF stdin = <<>> THEN <<>> ELSE Tail(stdin))
            /\ stderr' = stderr
            /\ pc' # "prompt_read"]_vars

C11_Witness ==
    /\ At({"read"}) # {}
    /\ response # <<0>>
    /\ stdin # <<>>

NotRoutablePhrase == "^ is not routable via the public internet."

\* how many of the four classifications a candidate falls under
ClassCount(url) ==
    Cardinality({c \in {"Unparsable", "UnsupportedScheme", "LocalHost", "ValidPublic"} :
        \/ c = "Unparsable" /\ IsUnparsable(url)
        \/ c = "UnsupportedScheme" /\ IsUnsupportedScheme(url)
        \/ c = "LocalHost" /\ IsLocalHost(url)
        \/ c = "ValidPublic" /\ IsValidPublic(url)})

\* a URL that parses with a scheme other than http and https and whose host
\* is nonetheless localhost or 127.0.0.1
IsLocalWithOtherScheme(url) ==
    /\ IsUnsupportedScheme(url)
    /\ Url_parse(url).host \in {Some(h) : h \in LocalHosts}

C15_IoFailurePropagates ==
    /\ Cardinality(At({"write_failed"})) <= 1
    /\ \A i \in At({"write_failed"}) :
           /\ trace[i - 1].op \in {"prompt", "warn"}
           /\ Len(trace) = i + 1
           /\ trace[i + 1] = Ev("return_err", IoErr("WriteFailed").message)
           /\ pc = "failed"
           /\ result = IoErr("WriteFailed")
           /\ At({"read", "write", "announce", "read_schema", "publish"}) = {}
           /\ stderr = <<>>
           /\ response = <<>>
    /\ \A j \in At({"read"}) :
           trace[j].arg = <<"eof">> =>
               /\ Len(trace) = j + 1
               /\ trace[j + 1] = Ev("return_err", IoErr("UnexpectedEof").message)
               /\ pc = "failed"
               /\ result = IoErr("UnexpectedEof")
               /\ Cardinality(At({"read", "write"})) = 2
               /\ At({"announce", "read_schema", "publish"}) = {}

C15_Witness ==
    /\ is_atty
    /\ stdin # <<>>
    /\ \E i \in At({"write_failed"}) : trace[i - 1].op = "prompt"

\* C16 (as claimed, its safety part): every validation call that is not waiting
\* on its read has returned exactly one outcome, Ok or an error.
C16_OneOutcomePerCall ==
    \A i \in At({"validate", "validate_none"}) :
        pc # "prompt_read" => ReturnOf(i) \in {"return_ok", "return_err"}

\* run under the scheduling of a synchronous, single-threaded program: a step
\* that can be taken is taken; for the read this is the assumption that the
\* input stream delivers a byte or signals its end
LiveSpec ==
    /\ Spec
    /\ WF_vars(ValidateSupplied)
    /\ WF_vars(ValidateFetched)
    /\ WF_vars(PromptRead)

\* the termination part of C16: a call waiting on its read ends, returned or
\* panicked, and run never comes back to a validation step it has left
C16_CallTerminates ==
    /\ (pc = "prompt_read") ~> (pc # "prompt_read")
    /\ (pc = "start") ~> (pc \notin {"start", "prompt_read"})
    /\ (pc = "validate_fetched") ~> (pc \notin {"validate_fetched", "prompt_read"})

\* C18: publish::run is handed the candidate of the command line as it was
\* given, whatever the validation made of it; without a candidate it is handed
\* none, the fetched URL having served the validation only.
C18_PublishesSuppliedUrl ==
    /\ [](At({"publish"}) # {} =>
            /\ published_url = routing_url
            /\ ~routing_url.some =>
                   /\ published_url = None
                   /\ fetch_response.some
                   /\ \E v \in At({"validate"}) : trace[v].arg = fetch_response.val)
    /\ [][routing_url' = routing_url]_vars

C18_Witness ==
    /\ At({"publish"}) # {}
    /\ ~routing_url.some
    /\ fetch_response.some
    /\ fetch_response.val # <<>>
    /\ published_url = None

====
